---- MODULE Spec2Model ----
(***************************************************************************)
(* A model of lib/UploadGarmin.py: one UploadGarmin instance, used by one  *)
(* thread.  Each action is one step of a public method: the code from one  *)
(* outbound request (with the _rate_limit call before it, when the code    *)
(* has one) up to the next request, the return or the raise.  The remote   *)
(* service is the environment: every response (status, body features,      *)
(* cookie jar) is chosen nondeterministically.                             *)
(*                                                                         *)
(* Python values: None is the empty tuple <<>> and a value v is <<v>>; a   *)
(* cookie jar is the set of its cookies ({} is an empty jar, which Python  *)
(* treats as false); the clock time.time() is the integer `now`, counted   *)
(* in ticks of 1/TicksPerUnit second.                                      *)
(***************************************************************************)
EXTENDS Integers, Sequences, FiniteSets, TLC

VARIABLES
    activityHierarchy,  \* self.activityHierarchy: the fetched dictionary
    cookies,            \* self.cookies: <<>> (None) or <<jar>>
    last_req_start,     \* self._last_req_start: <<>> (None) or <<time>>
    now,                \* time.time(), in ticks
    pc,                 \* position of the running call; "idle" between calls
    op,                 \* the public method called last
    gcPreResp,          \* local gcPreResp of _get_cookies: the jar of the response it holds
    req_count,          \* local req_count of _get_cookies
    retries,            \* local loop variable retries of _get_cookies
    location,           \* gcRedeemResp1.headers has a "location" entry
    activity_key,       \* local activity_key of set_activity_type
    activity_type,      \* argument activity_type of the last set_activity_type call
    workout_name,       \* argument workout_name of the last set_workout_name call
    log,                \* events of the last call: "wait" (_rate_limit) and the requests
    posts,              \* history: the credential posts of the last call and their responses
    last_resp,          \* history: <<status, flag>> of the response received last in the call
                        \* (<<status, body>> for a rename response)
    result,             \* how the last call ended
    prev_req_start,     \* history: self._last_req_start before the last _rate_limit
    wait_time,          \* history: wait_time of the last _rate_limit
    probe,              \* history: <<status, jar>> of the last root probe response
    page_id,            \* history: the number parsed from the sign-in page
    signin,             \* history: <<>> or <<jar>> of the sign-in page response
    negotiated,         \* history: some _get_cookies ran its flow to line 239
    was_negotiated,     \* history: negotiated, when the last call started
    cookies_at_call,    \* history: self.cookies, when the last call started
    upload_res          \* history: the detailedImportResult of the last upload

vars == <<activityHierarchy, cookies, last_req_start, now, pc, op, gcPreResp,
          req_count, retries, location, activity_key, log, posts, last_resp,
          result, prev_req_start, wait_time, probe, page_id, negotiated,
          was_negotiated, cookies_at_call, upload_res, activity_type,
          workout_name, signin>>

clock == <<now, last_req_start, prev_req_start, wait_time>>
locals == <<gcPreResp, req_count, retries, location>>

-----------------------------------------------------------------------------
(* Bounds of the model *)

\* ticks of the clock per time unit (second)
TicksPerUnit == 2
\* the clock stops MaxPeriods time units after construction
MaxPeriods == 5
\* longest successes list and failures list of an upload response
MaxItems == 2

MaxTime == (1 + MaxPeriods) * TicksPerUnit

-----------------------------------------------------------------------------
(* Python values *)

None == <<>>
Some(v) == <<v>>

\* the truth value Python gives self.cookies: None and an empty jar are false
Truthy(c) == c # None /\ c[1] # {}

Max(a, b) == IF a >= b THEN a ELSE b

Requests(l) == SelectSeq(l, LAMBDA e : e # "wait")

NoResult == [kind |-> "none", val |-> "", id |-> 0, msgs |-> <<>>, intervention |-> FALSE]
Return(v) == [kind |-> "return", val |-> v, id |-> 0, msgs |-> <<>>, intervention |-> FALSE]
ReturnId(v, i) == [kind |-> "return", val |-> v, id |-> i, msgs |-> <<>>, intervention |-> FALSE]
ReturnMsgs(v, m) == [kind |-> "return", val |-> v, id |-> 0, msgs |-> m, intervention |-> FALSE]
\* raise e, where e is the exception's class and the constant part of its message
Raise(e) == [kind |-> "raise", val |-> e, id |-> 0, msgs |-> <<>>, intervention |-> FALSE]
\* raise APIException(..., user_exception=UserException(..., intervention_required=True))
RaiseUser(e) == [kind |-> "raise", val |-> e, id |-> 0, msgs |-> <<>>, intervention |-> TRUE]

-----------------------------------------------------------------------------
(* The remote service's answers *)

Statuses == {200, 302, 500}
\* cookie jars of a response of the root probe and of the sign-in page
ProbeJars == {{}, {"probe"}}
SigninJars == {{}, {"signin"}}
\* the digits after the first "j_id" of a page; <<>> when the page has none
PageIds == {<<>>, <<7>>, <<0, 7>>, <<4, 2>>}

\* int(digits)
RECURSIVE ParseInt(_)
ParseInt(ds) ==
    IF ds = <<>> THEN 0 ELSE 10 * ParseInt(SubSeq(ds, 1, Len(ds) - 1)) + ds[Len(ds)]

-----------------------------------------------------------------------------
(* _rate_limit *)

min_period == 1
MinPeriodTicks == min_period * TicksPerUnit

\* lines 127-128: None and 0.0 are both replaced by 0.0
EffectiveLast(last) == IF last = None \/ last = Some(0) THEN 0 ELSE last[1]

\* line 130 with the operands of the subtraction exchanged
WaitTimeExchanged(last, t) == Max(0, MinPeriodTicks - (EffectiveLast(last) - t))

\* line 130
WaitTime(last, t) == Max(0, MinPeriodTicks - (t - EffectiveLast(last)))

\* _rate_limit, followed by `nap` ticks of time.sleep in the caller
RateLimit(nap) ==
    LET w == WaitTime(last_req_start, now) IN
    /\ now + w + nap <= MaxTime
    /\ wait_time' = w
    /\ prev_req_start' = last_req_start
    /\ last_req_start' = Some(now + w)
    /\ now' = now + w + nap

-----------------------------------------------------------------------------
(* _get_cookies *)

auth_retries == 3

\* line 145 without its test
HasCookiesUnchecked(c) == TRUE

\* line 145
HasCookies(c) == Truthy(c)

\* lines 154-237 without the last else: every status but 200 takes the SSO flow
DispatchNoElse(status) == IF status = 200 THEN "signin" ELSE "sso_pre"

\* lines 154, 177, 236: the flow the probe's status selects
Dispatch(status) ==
    IF status = 200 THEN "signin"
    ELSE IF status = 302 THEN "sso_pre"
    ELSE "unknown"

\* line 161: the number in javax.faces.ViewState = "j_id%d" % req_count
ViewState(count) == count

\* lines 165-176 with every non-redirect response below 500 tried again
PostOutcomeRetryAll(status, errorMessage, tries) ==
    IF status >= 500 /\ status < 600 THEN "remote_failure"
    ELSE IF status # 302 THEN
        IF tries < auth_retries - 1 THEN "continue"
        ELSE IF errorMessage THEN "invalid_login"
        ELSE "mystery"
    ELSE "break"

\* lines 165-176 with `retries < auth_retries` at line 169
PostOutcomeOneMore(status, errorMessage, tries) ==
    IF status >= 500 /\ status < 600 THEN "remote_failure"
    ELSE IF status # 302 THEN
        IF errorMessage THEN
            IF tries < auth_retries THEN "continue" ELSE "invalid_login"
        ELSE "mystery"
    ELSE "break"

\* lines 165-176: what a response to the credential post leads to
PostOutcome(status, errorMessage, tries) ==
    IF status >= 500 /\ status < 600 THEN "remote_failure"
    ELSE IF status # 302 THEN
        IF errorMessage THEN
            IF tries < auth_retries - 1 THEN "continue" ELSE "invalid_login"
        ELSE "mystery"
    ELSE "break"

\* lines 216-222 with the ticket looked for before the status is tested
SsoOutcomeTicketFirst(status, ticket) ==
    IF ~ticket THEN "invalid_login"
    ELSE IF status # 200 THEN "sso_error"
    ELSE "ticket"

\* lines 216-222: what a response to the SSO credential post leads to
SsoOutcome(status, ticket) ==
    IF status # 200 THEN "sso_error"
    ELSE IF ~ticket THEN "invalid_login"
    ELSE "ticket"

\* line 152 with the probe's jar put in self.cookies at once
CookiesAfterProbeCached(cached, jar) == Some(jar)

\* line 152: the probe's response goes to the local gcPreResp; self.cookies
\* stays as it is
CookiesAfterProbe(cached, jar) == cached

\* line 156 with the sign-in page's response kept in a variable of its own
SigninHeldProbe(held, jar) == held

\* line 156: gcPreResp is assigned again; it now holds the sign-in page's response
SigninHeld(held, jar) == jar

\* lines 228, 233 with only the statuses from 500 on refused
RedeemOkBelow500(status) == status < 500

\* lines 228, 233: a redemption response is accepted
RedeemOk(status) == status = 302

\* the call goes on at position p
Continue(p) ==
    /\ pc' = p
    /\ result' = NoResult

\* the call ends; the locals of _get_cookies are gone
Finish(r) ==
    /\ pc' = "idle"
    /\ result' = r
    /\ gcPreResp' = {}
    /\ req_count' = 0
    /\ retries' = 0
    /\ location' = FALSE

\* the start of a public method; the history of the call before is dropped
Begin(name) ==
    /\ pc = "idle"
    /\ op' = name
    /\ was_negotiated' = negotiated
    /\ cookies_at_call' = cookies
    /\ posts' = <<>>
    /\ page_id' = 0
    /\ signin' = <<>>
    /\ UNCHANGED activityHierarchy

\* login(username, password), lines 137-152: to the probe's response.
\* given: neither username nor password is None
Login(given, status, jar) ==
    /\ Begin("login")
    /\ activity_key' = ""
    /\ activity_type' = ""
    /\ workout_name' = ""
    /\ upload_res' = None
    /\ IF HasCookies(cookies) THEN
            /\ Finish(Return("True"))
            /\ log' = <<>>
            /\ probe' = <<>>
            /\ last_resp' = <<>>
            /\ UNCHANGED <<cookies, clock, negotiated>>
       ELSE IF ~given THEN
            /\ Finish(Raise("APIException: Username and/or password missing"))
            /\ log' = <<>>
            /\ probe' = <<>>
            /\ last_resp' = <<>>
            /\ UNCHANGED <<cookies, clock, negotiated>>
       ELSE
            /\ RateLimit(0)
            /\ log' = <<"wait", "GET /">>
            /\ probe' = <<status, jar>>
            /\ last_resp' = <<status, jar # {}>>
            /\ cookies' = CookiesAfterProbe(cookies, jar)
            /\ UNCHANGED negotiated
            /\ IF Dispatch(status) = "unknown" THEN
                    Finish(Raise("APIException: Unknown GC prestart response"))
               ELSE /\ Continue(Dispatch(status))
                    /\ gcPreResp' = jar
                    /\ UNCHANGED <<req_count, retries, location>>

\* lines 239-240 and 138-141: the flow is through
Store ==
    /\ cookies' = Some(gcPreResp)
    /\ negotiated' = TRUE
    /\ Finish(Return(IF Truthy(Some(gcPreResp)) THEN "True" ELSE "False"))

InFlow(p) ==
    /\ pc = p
    /\ UNCHANGED <<activityHierarchy, op, was_negotiated, cookies_at_call,
                   activity_key, upload_res, probe, activity_type, workout_name>>

\* lines 155-159: the sign-in page
SigninPage(status, jar, digits) ==
    /\ InFlow("signin")
    /\ RateLimit(0)
    /\ log' = log \o <<"wait", "GET /signin">>
    /\ last_resp' = <<status, digits # <<>>>>
    /\ signin' = Some(jar)
    /\ UNCHANGED <<cookies, negotiated, posts>>
    /\ IF digits = <<>> THEN
            /\ Finish(Raise("AttributeError"))
            /\ UNCHANGED page_id
       ELSE /\ Continue("post")
            /\ gcPreResp' = SigninHeld(gcPreResp, jar)
            /\ req_count' = ParseInt(digits)
            /\ page_id' = ParseInt(digits)
            /\ retries' = 0
            /\ UNCHANGED location

\* lines 160-176: one pass of the retry loop
SigninPost(status, errorMessage) ==
    LET outcome == PostOutcome(status, errorMessage, retries) IN
    /\ InFlow("post")
    /\ RateLimit(IF outcome = "continue" THEN MinPeriodTicks ELSE 0)
    /\ log' = log \o <<"wait", "POST /signin">>
    /\ posts' = Append(posts, [viewstate |-> ViewState(req_count), status |-> status,
                                error |-> errorMessage])
    /\ last_resp' = <<status, errorMessage>>
    /\ UNCHANGED <<page_id, signin>>
    /\ IF outcome = "continue" THEN
            /\ Continue("post")
            /\ req_count' = req_count + 1
            /\ retries' = retries + 1
            /\ UNCHANGED <<cookies, negotiated, gcPreResp, location>>
       ELSE IF outcome = "break" THEN Store
       ELSE /\ UNCHANGED <<cookies, negotiated>>
            /\ Finish(CASE outcome = "remote_failure" ->
                               Raise("APIException: Remote API failure")
                        [] outcome = "invalid_login" ->
                               RaiseUser("APIException: Invalid login")
                        [] OTHER -> Raise("APIException: Mystery login error"))

\* lines 210-213: the SSO login page
SsoPage(status, lt) ==
    /\ InFlow("sso_pre")
    /\ log' = log \o <<"GET sso/login">>
    /\ last_resp' = <<status, lt>>
    /\ UNCHANGED <<cookies, negotiated, posts, clock, page_id, signin>>
    /\ IF status # 200 THEN Finish(Raise("APIException: SSO prestart error"))
       ELSE IF ~lt THEN Finish(Raise("AttributeError"))
       ELSE /\ Continue("sso_post")
            /\ UNCHANGED locals

\* lines 215-222: the SSO credential post
SsoPost(status, ticket) ==
    LET outcome == SsoOutcome(status, ticket) IN
    /\ InFlow("sso_post")
    /\ log' = log \o <<"POST sso/login">>
    /\ last_resp' = <<status, ticket>>
    /\ UNCHANGED <<cookies, negotiated, posts, clock, page_id, signin>>
    /\ IF outcome = "sso_error" THEN Finish(Raise("APIException: SSO error"))
       ELSE IF outcome = "invalid_login" THEN
            Finish(RaiseUser("APIException: Invalid login"))
       ELSE /\ Continue("redeem1")
            /\ UNCHANGED locals

\* lines 226-229: the first redemption request
Redeem1(status, hasLocation) ==
    /\ InFlow("redeem1")
    /\ RateLimit(0)
    /\ log' = log \o <<"wait", "GET /post-auth/login">>
    /\ last_resp' = <<status, hasLocation>>
    /\ UNCHANGED <<cookies, negotiated, posts, page_id, signin>>
    /\ IF ~RedeemOk(status) THEN Finish(Raise("APIException: GC redeem 1 error"))
       ELSE /\ Continue("redeem2")
            /\ location' = hasLocation
            /\ UNCHANGED <<gcPreResp, req_count, retries>>

\* lines 231-240: the second redemption request
Redeem2(status) ==
    /\ InFlow("redeem2")
    /\ RateLimit(0)
    /\ UNCHANGED <<posts, page_id, signin>>
    /\ IF ~location THEN
            /\ log' = log \o <<"wait">>
            /\ UNCHANGED last_resp
            /\ UNCHANGED <<cookies, negotiated>>
            /\ Finish(Raise("KeyError"))
       ELSE /\ log' = log \o <<"wait", "GET location">>
            /\ last_resp' = <<status, FALSE>>
            /\ IF ~RedeemOk(status) THEN
                    /\ UNCHANGED <<cookies, negotiated>>
                    /\ Finish(Raise("APIException: GC redeem 2 error"))
               ELSE Store

-----------------------------------------------------------------------------
(* _check_activity_type *)

\* Python's False and None, as values of activity_key
PyFalse == "<False>"
PyNone == "<None>"

\* str.lower() on the strings of the model
Lower(s) ==
    CASE s \in {"Running", "RUNNING"} -> "running"
      [] s = "Street Running" -> "street running"
      [] s = "Hike" -> "hike"
      [] s = "Trail" -> "trail"
      [] OTHER -> s

\* the dictionary the constructor fetched (lines 111-112)
Dictionary ==
    << [key |-> "running", display |-> "Running"],
       [key |-> "street_running", display |-> "Street Running"],
       [key |-> "Hike", display |-> "Trail"] >>

Labels == {"RUNNING", "Hike", "unicorn"}

\* line 319
Matches(label, activity) ==
    Lower(label) \in {activity.key, Lower(activity.display)}

\* lines 318-323
CheckActivityType(dict, label) ==
    LET hits == {i \in 1..Len(dict) : Matches(label, dict[i])} IN
    IF hits = {} THEN PyFalse
    ELSE dict[CHOOSE i \in hits : \A j \in hits : i <= j].key

-----------------------------------------------------------------------------
(* upload_file, set_workout_name, set_activity_type *)

VALID_GARMIN_FILE_EXTENSIONS == {".tcx", ".fit", ".gpx"}
Extensions == VALID_GARMIN_FILE_EXTENSIONS \cup {".txt"}

\* the code of an "already imported" message (line 278)
DuplicateCode == 202

Ids == {11, 12}
Codes == {DuplicateCode, 400}
SeqsUpTo(S, n) == UNION {[1..k -> S] : k \in 0..n}
Failures == [internalId : Ids, messages : SeqsUpTo(Codes, Cardinality(Codes))]
\* the detailedImportResult objects with lists of at most n entries
UploadResults(n) == [successes : SeqsUpTo(Ids, n), failures : SeqsUpTo(Failures, n)]
\* the detailedImportResult objects the service answers with in Spec
SomeUploadResults ==
    { [successes |-> <<12, 11>>, failures |-> <<>>],
      [successes |-> <<>>, failures |-> <<[internalId |-> 11, messages |-> <<202, 400>>]>>],
      [successes |-> <<>>, failures |-> <<[internalId |-> 12, messages |-> <<400, 202>>]>>],
      [successes |-> <<>>, failures |-> <<>>] }

\* lines 277-284 with the duplicate code looked for in any message of the failure
ClassifyAnyMessage(res) ==
    IF Len(res.successes) = 0 THEN
        IF res.failures = <<>> THEN Raise("IndexError")
        ELSE IF res.failures[1].messages = <<>> THEN Raise("IndexError")
        ELSE IF \E i \in 1..Len(res.failures[1].messages) :
                    res.failures[1].messages[i] = DuplicateCode THEN
            ReturnId("EXISTS", res.failures[1].internalId)
        ELSE ReturnMsgs("FAIL", res.failures[1].messages)
    ELSE ReturnId("SUCCESS", res.successes[1])

\* lines 277-284
Classify(res) ==
    IF Len(res.successes) = 0 THEN
        IF res.failures = <<>> THEN Raise("IndexError")
        ELSE IF res.failures[1].messages = <<>> THEN Raise("IndexError")
        ELSE IF res.failures[1].messages[1] = DuplicateCode THEN
            ReturnId("EXISTS", res.failures[1].internalId)
        ELSE ReturnMsgs("FAIL", res.failures[1].messages)
    ELSE ReturnId("SUCCESS", res.successes[1])

\* _get_cookies() without arguments, lines 145-149: the cached cookies or a raise
MissingCredentials == Raise("APIException: Username and/or password missing")

\* upload_file(uploadFile), where ext is the file's extension in lower case
UploadFile(ext, res) ==
    /\ Begin("upload")
    /\ activity_key' = ""
    /\ activity_type' = ""
    /\ workout_name' = ""
    /\ probe' = <<>>
    /\ UNCHANGED <<cookies, negotiated>>
    /\ IF ext \notin VALID_GARMIN_FILE_EXTENSIONS THEN
            /\ Finish(Raise("Exception: Invalid File Extension"))
            /\ log' = <<>>
            /\ upload_res' = None
            /\ last_resp' = <<>>
            /\ UNCHANGED clock
       ELSE IF ~HasCookies(cookies) THEN
            /\ Finish(MissingCredentials)
            /\ log' = <<>>
            /\ upload_res' = None
            /\ last_resp' = <<>>
            /\ UNCHANGED clock
       ELSE /\ RateLimit(0)
            /\ log' = <<"wait", "POST upload">>
            /\ upload_res' = Some(res)
            /\ last_resp' = <<200, TRUE>>
            /\ Finish(Classify(res))

\* a unicode name with a character outside ASCII, which urlencode cannot take
UnicodeName == "u'Caf\\xe9'"
Names == {"Morning Run", "morning run", UnicodeName}
\* the body of a rename response: its display.value, or not the JSON expected
NameBodies == {"Morning Run", "morning run", "<not json>"}

\* line 290: urlencode(...) applies str() to the value
Encodable(name) == name # UnicodeName

\* lines 294-304 without the comparison of line 296
NameOutcomeStatusOnly(status, body, name) ==
    IF status = 200 THEN
        IF body = "<not json>" THEN Raise("ValueError")
        ELSE Return("True")
    ELSE Return("False")

\* lines 294-304
NameOutcome(status, body, name) ==
    IF status = 200 THEN
        IF body = "<not json>" THEN Raise("ValueError")
        ELSE IF body = name THEN Return("True")
        ELSE Return("False")
    ELSE Return("False")

\* set_workout_name(workout_id, workout_name)
SetWorkoutName(name, status, body) ==
    /\ Begin("rename")
    /\ activity_key' = ""
    /\ activity_type' = ""
    /\ workout_name' = name
    /\ probe' = <<>>
    /\ upload_res' = None
    /\ UNCHANGED <<cookies, negotiated>>
    /\ IF ~HasCookies(cookies) THEN
            /\ Finish(MissingCredentials)
            /\ log' = <<>>
            /\ last_resp' = <<>>
            /\ UNCHANGED clock
       ELSE IF ~Encodable(name) THEN
            /\ Finish(Raise("UnicodeEncodeError"))
            /\ log' = <<>>
            /\ last_resp' = <<>>
            /\ UNCHANGED clock
       ELSE /\ RateLimit(0)
            /\ log' = <<"wait", "POST name">>
            /\ last_resp' = <<status, body>>
            /\ Finish(NameOutcome(status, body, name))

\* the body of a set-type response: its activityType.key, no activityType, or
\* not JSON
TypeBodies == {"running", PyFalse, "<absent>", "<not json>"}

\* lines 336-345
TypeOutcome(status, body, key) ==
    IF status = 200 THEN
        IF body = "<not json>" THEN Raise("ValueError")
        ELSE IF body = "<absent>" \/ body # key THEN Return("False")
        ELSE Return("True")
    ELSE Return("False")

\* line 327: activity_key is None
IsNone(key) == key = PyNone

\* set_activity_type(workout_id, activity_type)
SetActivityType(label, status, body) ==
    LET key == CheckActivityType(activityHierarchy, label) IN
    /\ Begin("settype")
    /\ activity_key' = key
    /\ activity_type' = label
    /\ workout_name' = ""
    /\ probe' = <<>>
    /\ upload_res' = None
    /\ UNCHANGED <<cookies, negotiated>>
    /\ IF IsNone(key) THEN
            /\ Finish(Return("False"))
            /\ log' = <<>>
            /\ last_resp' = <<>>
            /\ UNCHANGED clock
       ELSE IF ~HasCookies(cookies) THEN
            /\ Finish(MissingCredentials)
            /\ log' = <<>>
            /\ last_resp' = <<>>
            /\ UNCHANGED clock
       ELSE /\ RateLimit(0)
            /\ log' = <<"wait", "POST type">>
            /\ last_resp' = <<status, body # "<not json>">>
            /\ Finish(TypeOutcome(status, body, key))

-----------------------------------------------------------------------------

\* the instance after __init__; time.time() counts from the epoch, so the clock
\* is at least one period past 0 when the instance is made
Init ==
    /\ activityHierarchy = Dictionary
    /\ cookies = None
    /\ last_req_start = None
    /\ now = MinPeriodTicks
    /\ pc = "idle"
    /\ op = "init"
    /\ gcPreResp = {}
    /\ req_count = 0
    /\ retries = 0
    /\ location = FALSE
    /\ activity_key = ""
    /\ log = <<>>
    /\ posts = <<>>
    /\ last_resp = <<>>
    /\ result = NoResult
    /\ prev_req_start = None
    /\ wait_time = 0
    /\ probe = <<>>
    /\ page_id = 0
    /\ negotiated = FALSE
    /\ was_negotiated = FALSE
    /\ cookies_at_call = None
    /\ upload_res = <<>>
    /\ activity_type = ""
    /\ workout_name = ""
    /\ signin = <<>>

\* time passes
Tick ==
    /\ now < MaxTime
    /\ now' = now + 1
    /\ UNCHANGED <<activityHierarchy, cookies, last_req_start, pc, op, gcPreResp,
                   req_count, retries, location, activity_key, log, posts, last_resp,
                   result, prev_req_start, wait_time, probe, page_id, negotiated,
                   was_negotiated, cookies_at_call, upload_res, activity_type,
                   workout_name, signin>>

Next ==
    \/ Tick
    \/ \E given \in BOOLEAN, s \in Statuses, j \in ProbeJars :
            Login(given, s, j)
    \/ \E s \in Statuses, j \in SigninJars, d \in PageIds : SigninPage(s, j, d)
    \/ \E s \in Statuses, e \in BOOLEAN : SigninPost(s, e)
    \/ \E s \in Statuses, lt \in BOOLEAN : SsoPage(s, lt)
    \/ \E s \in Statuses, t \in BOOLEAN : SsoPost(s, t)
    \/ \E s \in Statuses, l \in BOOLEAN : Redeem1(s, l)
    \/ \E s \in Statuses : Redeem2(s)
    \/ \E e \in Extensions, r \in SomeUploadResults :
            UploadFile(e, r)
    \/ \E n \in Names, s \in Statuses, b \in NameBodies :
            SetWorkoutName(n, s, b)
    \/ \E l \in Labels, s \in Statuses, b \in TypeBodies :
            SetActivityType(l, s, b)

Spec == Init /\ [][Next]_vars

-----------------------------------------------------------------------------
(* The classification of upload responses, on an instance that has logged in *)

\* the state after a login through the SSO flow that ended one period before
\* the clock stops
InitClassify ==
    /\ activityHierarchy = Dictionary
    /\ cookies = Some({"probe"})
    /\ last_req_start = Some(MaxTime - MinPeriodTicks)
    /\ now = MaxTime - MinPeriodTicks
    /\ pc = "idle"
    /\ op = "login"
    /\ gcPreResp = {}
    /\ req_count = 0
    /\ retries = 0
    /\ location = FALSE
    /\ activity_key = ""
    /\ log = <<"wait", "GET /", "GET sso/login", "POST sso/login",
               "wait", "GET /post-auth/login", "wait", "GET location">>
    /\ posts = <<>>
    /\ last_resp = <<302, FALSE>>
    /\ result = Return("True")
    /\ prev_req_start = Some(MaxTime - 2 * MinPeriodTicks)
    /\ wait_time = MinPeriodTicks
    /\ probe = <<302, {"probe"}>>
    /\ page_id = 0
    /\ negotiated = TRUE
    /\ was_negotiated = FALSE
    /\ cookies_at_call = None
    /\ upload_res = None
    /\ activity_type = ""
    /\ workout_name = ""
    /\ signin = <<>>

NextClassify ==
    /\ now + WaitTime(last_req_start, now) <= MaxTime
    /\ \E e \in VALID_GARMIN_FILE_EXTENSIONS, r \in UploadResults(MaxItems) :
            UploadFile(e, r)

SpecClassify == InitClassify /\ [][NextClassify]_vars

-----------------------------------------------------------------------------
(* Properties *)

IsPrefix(s, t) == Len(s) <= Len(t) /\ s = SubSeq(t, 1, Len(s))

Last(s) == s[Len(s)]

\* the requests of the two login flows, in order
LegacyRequests ==
    <<"GET /", "GET /signin", "POST /signin", "POST /signin", "POST /signin">>
SsoRequests ==
    <<"GET /", "GET sso/login", "POST sso/login", "GET /post-auth/login", "GET location">>

\* the spec's sub-kind of AuthError for what _get_cookies raises
AuthErrorKind(e) ==
    CASE e = "APIException: Invalid login" -> "InvalidCredentials"
      [] e \in {"APIException: Remote API failure", "APIException: SSO prestart error",
                "APIException: SSO error", "APIException: GC redeem 1 error",
                "APIException: GC redeem 2 error"} -> "RemoteServerError"
      [] e \in {"APIException: Unknown GC prestart response",
                "APIException: Mystery login error"} -> "ProtocolMismatch"
      [] OTHER -> "none"

\* C1: a set_activity_type call whose label matches no dictionary entry returns
\* False and makes no request and no _rate_limit call (stated for the calls on
\* an instance that holds cookies; without cookies the call raises).
C1_UnresolvedLabelNoRequest ==
    (op = "settype" /\ activity_key = PyFalse /\ Truthy(cookies_at_call)) =>
        (result = Return("False") /\ log = <<>>)

\* C2: once a _get_cookies call has run its flow to the end, a later login with
\* a username and a password makes no request and returns with the cached
\* cookies unchanged.
C2_NegotiateIdempotent ==
    (op = "login" /\ was_negotiated /\ result # MissingCredentials) =>
        /\ log = <<>>
        /\ pc = "idle"
        /\ result.kind = "return"
        /\ cookies = cookies_at_call

\* C3: every request in a call's event log comes right after a _rate_limit call.
C3_EveryRequestAfterWait ==
    \A i \in 1..Len(log) : log[i] # "wait" => (i > 1 /\ log[i - 1] = "wait")

\* C4: an upload, rename or set-activity-type call makes a request only when
\* self.cookies holds a jar; with self.cookies None it makes no request.
C4_RequestsNeedCredential ==
    op \in {"upload", "rename", "settype"} =>
        /\ Requests(log) # <<>> => (cookies # None /\ cookies_at_call # None)
        /\ cookies_at_call = None => log = <<>>

C4_Witness ==
    /\ op = "rename"
    /\ cookies # None
    /\ log = <<"wait", "POST name">>

\* C5: after the probe, a login call makes the requests of the legacy flow when
\* the probe's status was 200 and those of the SSO flow when it was 302, in
\* order; on any other status it raises the "Unknown GC prestart response"
\* APIException (ProtocolMismatch) with the probe as its only request.
C5_ProbeDispatch ==
    (op = "login" /\ probe # <<>>) =>
        /\ probe[1] = 200 =>
            /\ IsPrefix(Requests(log), LegacyRequests)
            /\ pc \in {"idle", "signin", "post"}
            /\ pc = "idle" => Len(Requests(log)) >= 2
        /\ probe[1] = 302 =>
            /\ IsPrefix(Requests(log), SsoRequests)
            /\ pc \in {"idle", "sso_pre", "sso_post", "redeem1", "redeem2"}
            /\ pc = "idle" => Len(Requests(log)) >= 2
        /\ probe[1] \notin {200, 302} =>
            /\ Requests(log) = <<"GET /">>
            /\ pc = "idle"
            /\ result = Raise("APIException: Unknown GC prestart response")
            /\ AuthErrorKind(result.val) = "ProtocolMismatch"

C5_Witness ==
    /\ op = "login"
    /\ probe # <<>>
    /\ probe[1] = 500
    /\ result = Raise("APIException: Unknown GC prestart response")

C7_SsoTicketMissing ==
    (op = "login" /\ log # <<>> /\ Last(log) = "POST sso/login") =>
        /\ (last_resp[1] = 200 /\ ~last_resp[2]) =>
            /\ pc = "idle"
            /\ result = RaiseUser("APIException: Invalid login")
            /\ AuthErrorKind(result.val) = "InvalidCredentials"
            /\ cookies = cookies_at_call
            /\ ~Truthy(cookies)
        /\ last_resp[1] # 200 =>
            /\ pc = "idle"
            /\ result = Raise("APIException: SSO error")
            /\ AuthErrorKind(result.val) = "RemoteServerError"
            /\ cookies = cookies_at_call
            /\ ~Truthy(cookies)
        /\ pc # "idle" => (pc = "redeem1" /\ last_resp = <<200, TRUE>>)

C7_Witness ==
    /\ op = "login"
    /\ log = <<"wait", "GET /", "GET sso/login", "POST sso/login">>
    /\ last_resp = <<200, FALSE>>
    /\ result = RaiseUser("APIException: Invalid login")

\* C8: whatever a login call raises once its probe is made is an APIException of
\* one of the kinds InvalidCredentials, RemoteServerError, ProtocolMismatch.
C8_OnlyAuthErrors ==
    (op = "login" /\ probe # <<>> /\ result.kind = "raise") =>
        AuthErrorKind(result.val) \in
            {"InvalidCredentials", "RemoteServerError", "ProtocolMismatch"}

\* C9: the start time a _rate_limit call records is at least min_period after
\* the one recorded by the call before it, and the first _rate_limit call of an
\* instance waits zero time.
C9_MinSpacing ==
    last_req_start # None =>
        /\ prev_req_start = None => wait_time = 0
        /\ prev_req_start # None =>
                last_req_start[1] - prev_req_start[1] >= MinPeriodTicks

C9_Witness ==
    /\ prev_req_start # None
    /\ last_req_start # None
    /\ wait_time > 0
    /\ wait_time < MinPeriodTicks
    /\ last_req_start[1] - prev_req_start[1] = MinPeriodTicks

\* C10: an upload that got a detailedImportResult returns EXISTS with the first
\* failure's internalId when there is no success and the first message of the
\* first failure has code 202, FAIL with that failure's messages when there is
\* no success and that code is another one, and SUCCESS with the first success's
\* internalId when there is a success.
C10_UploadClassification ==
    (op = "upload" /\ upload_res # None) =>
        LET res == upload_res[1] IN
        /\ (/\ res.successes = <<>>
            /\ res.failures # <<>>
            /\ res.failures[1].messages # <<>>
            /\ res.failures[1].messages[1] = 202)
            => result = ReturnId("EXISTS", res.failures[1].internalId)
        /\ (/\ res.successes = <<>>
            /\ res.failures # <<>>
            /\ res.failures[1].messages # <<>>
            /\ res.failures[1].messages[1] # 202)
            => result = ReturnMsgs("FAIL", res.failures[1].messages)
        /\ res.successes # <<>>
            => result = ReturnId("SUCCESS", res.successes[1])

C10_Witness ==
    /\ op = "upload"
    /\ upload_res # None
    /\ upload_res[1].successes = <<>>
    /\ Len(upload_res[1].failures) = 2
    /\ upload_res[1].failures[1] = [internalId |-> 12, messages |-> <<202, 400>>]
    /\ upload_res[1].failures[2].internalId = 11
    /\ result = ReturnId("EXISTS", 12)

\* C11: a set_workout_name call that got a response returns True only when the
\* status is 200 and the echoed display.value equals the name asked for; on any
\* other echoed string and on any other status it returns False, without raising.
C11_RenameEcho ==
    (op = "rename" /\ log = <<"wait", "POST name">>) =>
        /\ result = Return("True") =>
                (last_resp[1] = 200 /\ last_resp[2] = workout_name)
        /\ (last_resp[1] # 200
                \/ (last_resp[2] # "<not json>" /\ last_resp[2] # workout_name))
            => result = Return("False")

C11_Witness ==
    /\ op = "rename"
    /\ cookies # None
    /\ workout_name = "Morning Run"
    /\ last_resp = <<200, "morning run">>
    /\ result = Return("False")

\* the key of the first entry whose key or display name equals the label, case
\* ignored on both sides; PyFalse (not found) when there is none
ResolveIgnoringCase(dict, label) ==
    LET hits == {i \in 1..Len(dict) :
                    Lower(label) \in {Lower(dict[i].key), Lower(dict[i].display)}} IN
    IF hits = {} THEN PyFalse
    ELSE dict[CHOOSE i \in hits : \A j \in hits : i <= j].key

\* C12: the key set_activity_type resolves a label to is the key of the first
\* dictionary entry whose key or display name equals the label with case
\* ignored, and not-found when no entry does.
C12_ResolveIgnoresCase ==
    op = "settype" =>
        activity_key = ResolveIgnoringCase(activityHierarchy, activity_type)

\* C13: in the legacy flow a 5xx answer to the sign-in page fetch or to a
\* credential post ends the call at once with the "Remote API failure"
\* APIException (RemoteServerError).
C13_Legacy5xxFails ==
    (/\ op = "login"
     /\ log # <<>>
     /\ Last(log) \in {"GET /signin", "POST /signin"}
     /\ last_resp[1] >= 500)
        => (pc = "idle" /\ result = Raise("APIException: Remote API failure"))

\* the credential posts before the last one were each answered by a
\* non-redirect, non-5xx response with the error marker, and so was the last
\* one when the loop goes on
RetriedOnlyOnMarker ==
    \A k \in 1..Len(posts) :
        (k < Len(posts) \/ pc = "post") =>
            (posts[k].status # 302 /\ posts[k].status < 500 /\ posts[k].error)

\* a redirect answer to the last credential post has ended the call with the
\* sign-in page's jar cached
RedirectEndsLoop ==
    (pc = "idle" /\ posts # <<>> /\ posts[Len(posts)].status = 302) =>
        (result.kind = "return" /\ negotiated /\ cookies = signin)

\* C14 as stated: a credential post is made again only after a non-redirect,
\* non-5xx answer with the error marker; any non-redirect answer without the
\* marker ends the call with the "Mystery login error" APIException
\* (ProtocolMismatch); a redirect answer ends it with success.
C14_RetryOnlyOnMarker ==
    op = "login" =>
        /\ RetriedOnlyOnMarker
        /\ RedirectEndsLoop
        /\ (/\ pc = "idle"
            /\ posts # <<>>
            /\ posts[Len(posts)].status # 302
            /\ ~posts[Len(posts)].error)
            => result = Raise("APIException: Mystery login error")

\* C14 amended: as C14, where the answer without the marker that ends the call
\* with the "Mystery login error" APIException is a non-redirect, non-5xx one.
C14_RetryOnlyOnMarkerBelow500 ==
    op = "login" =>
        /\ RetriedOnlyOnMarker
        /\ RedirectEndsLoop
        /\ (/\ pc = "idle"
            /\ posts # <<>>
            /\ posts[Len(posts)].status # 302
            /\ posts[Len(posts)].status < 500
            /\ ~posts[Len(posts)].error)
            => /\ result = Raise("APIException: Mystery login error")
               /\ AuthErrorKind(result.val) = "ProtocolMismatch"
               /\ Len(posts) = 1 \/ posts[Len(posts) - 1].error

C14_Witness ==
    /\ op = "login"
    /\ Len(posts) = 2
    /\ posts[1].error
    /\ posts[2] = [viewstate |-> 43, status |-> 200, error |-> FALSE]
    /\ result = Raise("APIException: Mystery login error")

\* a step that made the request r
Made(r) == log' # log /\ log' # <<>> /\ Last(log') = r

\* C15: the second redemption GET is made only right after the first one was
\* answered with 302; self.cookies is set in the SSO flow only by the step that
\* gets 302 for the second GET; any other status for either GET ends the call
\* with the "GC redeem" APIException (RemoteServerError), self.cookies unchanged.
C15_TicketRedemption ==
    [][/\ Made("GET location") =>
            /\ pc = "redeem2"
            /\ Last(log) = "GET /post-auth/login"
            /\ last_resp[1] = 302
       /\ Made("GET /post-auth/login") =>
            /\ pc = "redeem1"
            /\ Last(log) = "POST sso/login"
       /\ (cookies' # cookies /\ probe[1] = 302) =>
            /\ Made("GET location")
            /\ last_resp'[1] = 302
            /\ Requests(log') = SsoRequests
       /\ ((Made("GET /post-auth/login") \/ Made("GET location")) /\ last_resp'[1] # 302) =>
            /\ pc' = "idle"
            /\ cookies' = cookies
            /\ result'.kind = "raise"
            /\ AuthErrorKind(result'.val) = "RemoteServerError"
            /\ result'.val = (IF Made("GET location")
                                THEN "APIException: GC redeem 2 error"
                                ELSE "APIException: GC redeem 1 error")
      ]_vars

C15_Witness ==
    /\ op = "login"
    /\ Requests(log) = SsoRequests
    /\ last_resp[1] = 302
    /\ cookies = Some({"probe"})
    /\ result = Return("True")

Count(l, r) == Cardinality({i \in 1..Len(l) : l[i] = r})

\* C16: a call makes every request at most once, but the legacy credential post,
\* which it makes at most 3 times; a login call makes at most 5 requests and has
\* ended when it has made 5.
C16_NoOtherRetry ==
    /\ \A i \in 1..Len(log) :
            log[i] \notin {"wait", "POST /signin"} => Count(log, log[i]) = 1
    /\ Count(log, "POST /signin") <= 3
    /\ Len(Requests(log)) <= 5
    /\ Len(Requests(log)) = 5 => pc = "idle"
    /\ op # "login" => Len(Requests(log)) <= 1

C16_Witness ==
    /\ op = "login"
    /\ Requests(log) = LegacyRequests
    /\ pc = "idle"

\* a login call has run its flow to the end
FlowDone ==
    /\ op = "login"
    /\ pc = "idle"
    /\ log # <<>>
    /\ result.kind = "return"

\* C17 as stated: after a login call that ran either flow to its end,
\* self.cookies is the jar of the root probe's response.
C17_CredentialIsProbeJar ==
    FlowDone => cookies = Some(probe[2])

\* C17 amended: after a login call that ran the SSO flow to its end,
\* self.cookies is the jar of the root probe's response; after one that ran the
\* legacy flow to its end it is the jar of the sign-in page's response.
C17_CredentialByFlow ==
    FlowDone =>
        /\ probe[1] = 302 => (cookies = Some(probe[2]) /\ signin = <<>>)
        /\ probe[1] = 200 => (cookies = signin /\ signin # <<>>)
        /\ probe[1] \in {200, 302}

C17_Witness ==
    /\ FlowDone
    /\ probe = <<200, {"probe"}>>
    /\ signin = Some({"signin"})
    /\ cookies = Some({"signin"})

\* C18: once a _get_cookies call has run its flow to the end, no step of a later
\* call changes self.cookies.
C18_CredentialImmutable ==
    [][negotiated => cookies' = cookies]_vars

\* C19: a login call that raises leaves self.cookies (and the dictionary) as
\* they were when it started, with nothing cached; a login call with username
\* and password that comes next starts with the _rate_limit call and the root
\* probe.
C19_FailureLeavesCache ==
    [][/\ (op' = "login" /\ pc' = "idle" /\ result'.kind = "raise") =>
            /\ cookies' = cookies_at_call'
            /\ ~Truthy(cookies')
            /\ negotiated' = was_negotiated'
            /\ activityHierarchy' = activityHierarchy
       /\ (/\ op = "login" /\ pc = "idle" /\ result.kind = "raise"
           /\ op' = "login" /\ result' # MissingCredentials)
            => (Len(log') >= 2 /\ SubSeq(log', 1, 2) = <<"wait", "GET /">>)
      ]_vars

C19_Witness ==
    /\ op = "login"
    /\ pc = "idle"
    /\ result = Raise("APIException: GC redeem 2 error")
    /\ probe = <<302, {"probe"}>>
    /\ cookies = None
====
